---- MODULE Spec2Model ----
(***************************************************************************)
(* Model of MONGO-PRAKTEK/API/server.js: an Express CRUD API over the two  *)
(* MongoDB collections 'posts' and 'produk'.                               *)
(*                                                                         *)
(* Every await of a handler is one step of the model, so requests in       *)
(* flight interleave at exactly the points where Node may switch between   *)
(* them.  JavaScript values are modelled with their dynamic type, because  *)
(* validateProduk and the write handlers rely on JavaScript's coercions.   *)
(***************************************************************************)
EXTENDS Integers, Sequences, FiniteSets

VARIABLES
    reachable,    \* TRUE iff a connection attempt made now would succeed
    timer,        \* delay in ms of the setTimeout a failed attempt scheduled, 0 if none
    listens,      \* number of calls of app.listen
    phase,        \* "starting" until app.listen has been called, then "listening"
    retries,      \* argument of the pending connectWithRetry call, 0 once none is pending
    uniqueIndex,  \* TRUE iff idx_kode_produk_unique exists on 'produk'
    clock,        \* the value new Date() returns, in ticks
    posts,        \* collection 'posts':  _id -> document
    produk,       \* collection 'produk': _id -> document
    nextId,       \* the next _id the store generates
    req,          \* the requests in flight, one per slot
    issued        \* number of requests accepted so far

vars == <<reachable, timer, listens, phase, retries, uniqueIndex, clock, posts, produk, nextId, req, issued>>

(***************************************************************************)
(* Bounds of the model.                                                    *)
(***************************************************************************)
MaxSlots == 2     \* requests in flight at the same time
MaxIssued == 3    \* requests accepted in one behaviour
MaxClock == 1     \* ticks of the clock
MaxRetries == 6   \* failed connection attempts
MaxTotal == 5     \* documents in a collection when a list is requested

(***************************************************************************)
(* JavaScript values.  Every value is a record of the same shape:          *)
(*   t  the type tag, b a boolean, n an integer, s a sequence of one-      *)
(*   character strings.  Numbers are held in tenths (n = 15 is 1.5) and    *)
(*   b = TRUE marks NaN.  Strings are over a small alphabet and            *)
(*   carry at most one digit after the decimal point.  A Date is held as   *)
(*   its clock tick.                                                       *)
(***************************************************************************)
Undef == [t |-> "undefined", b |-> FALSE, n |-> 0, s |-> <<>>]
Null == [t |-> "null", b |-> FALSE, n |-> 0, s |-> <<>>]
Bool(x) == [t |-> "boolean", b |-> x, n |-> 0, s |-> <<>>]
Num(tenths) == [t |-> "number", b |-> FALSE, n |-> tenths, s |-> <<>>]
NaN == [t |-> "number", b |-> TRUE, n |-> 0, s |-> <<>>]
Str(chars) == [t |-> "string", b |-> FALSE, n |-> 0, s |-> chars]
Date(tick) == [t |-> "date", b |-> FALSE, n |-> tick, s |-> <<>>]

Digits == {"0", "1", "2", "5"}
DigitVal(c) == CASE c = "0" -> 0 [] c = "1" -> 1 [] c = "2" -> 2 [] OTHER -> 5

\* !x
Falsy(x) ==
    \/ x.t \in {"undefined", "null"}
    \/ x.t = "boolean" /\ ~x.b
    \/ x.t = "number" /\ (x.b \/ x.n = 0)
    \/ x.t = "string" /\ x.s = <<>>

RECURSIVE TrimStart(_)
TrimStart(s) == IF s # <<>> /\ Head(s) = " " THEN TrimStart(Tail(s)) ELSE s

RECURSIVE TrimEnd(_)
TrimEnd(s) ==
    IF s # <<>> /\ s[Len(s)] = " " THEN TrimEnd(SubSeq(s, 1, Len(s) - 1)) ELSE s

\* String.prototype.trim
Trim(s) == TrimEnd(TrimStart(s))

\* number of leading decimal digits of s
RECURSIVE DigitsLen(_)
DigitsLen(s) ==
    IF s # <<>> /\ Head(s) \in Digits THEN 1 + DigitsLen(Tail(s)) ELSE 0

\* value of the decimal digits s[1..k]
RECURSIVE DigitsVal(_, _)
DigitsVal(s, k) ==
    IF k = 0 THEN 0 ELSE 10 * DigitsVal(s, k - 1) + DigitVal(s[k])

\* The longest prefix of s of the form [-]digits[.digits]: ok iff it holds
\* a digit, used = its length, n = its value in tenths.
ScanMantissa(s) ==
    LET neg == s # <<>> /\ Head(s) = "-"
        u == IF neg THEN Tail(s) ELSE s
        il == DigitsLen(u)
        afterInt == SubSeq(u, il + 1, Len(u))
        dot == afterInt # <<>> /\ Head(afterInt) = "."
        frac == IF dot THEN Tail(afterInt) ELSE <<>>
        fl == DigitsLen(frac)
        hasDot == dot /\ (il > 0 \/ fl > 0)
        mag == 10 * DigitsVal(u, il) + (IF hasDot /\ fl > 0 THEN DigitVal(frac[1]) ELSE 0)
    IN  [ok |-> il > 0 \/ (dot /\ fl > 0),
         used |-> (IF neg THEN 1 ELSE 0) + il + (IF hasDot THEN 1 + fl ELSE 0),
         n |-> IF neg THEN 0 - mag ELSE mag]

\* the mantissa m of s with the exponent part (e digits, unsigned here)
\* that follows it, if any
ScanExponent(s, m) ==
    LET rest == SubSeq(s, m.used + 1, Len(s))
        el == IF m.ok /\ rest # <<>> /\ Head(rest) = "e"
              THEN DigitsLen(Tail(rest)) ELSE 0
    IN  IF el = 0 THEN m
        ELSE [ok |-> TRUE, used |-> m.used + 1 + el,
              n |-> m.n * 10 ^ DigitsVal(Tail(rest), el)]

\* The longest prefix of s that is a decimal literal
\* [-]digits[.digits][e digits]
ScanDecimal(s) == ScanExponent(s, ScanMantissa(s))

\* Number(x): the conversion isNaN applies to its argument
ToNumber(x) ==
    CASE x.t = "number" -> x
      [] x.t = "undefined" -> NaN
      [] x.t = "null" -> Num(0)
      [] x.t = "boolean" -> IF x.b THEN Num(10) ELSE Num(0)
      [] x.t = "date" -> Num(10 * x.n)
      [] OTHER ->
            LET u == Trim(x.s)
                d == ScanDecimal(u)
            IN  IF u = <<>> THEN Num(0)
                ELSE IF d.ok /\ d.used = Len(u) THEN Num(d.n)
                ELSE NaN

\* isNaN(x)
IsNaN(x) == ToNumber(x).b

\* parseFloat(x): a number is its own value, a string is scanned for a
\* decimal prefix, everything else prints as a word and gives NaN
ParseFloat(x) ==
    CASE x.t = "number" -> x
      [] x.t = "string" ->
            LET d == ScanDecimal(TrimStart(x.s))
            IN  IF d.ok THEN Num(d.n) ELSE NaN
      [] OTHER -> NaN

\* the integer part of a number held in tenths, truncated towards zero
Trunc(n) == IF n >= 0 THEN 10 * (n \div 10) ELSE 0 - 10 * ((0 - n) \div 10)

\* parseInt(x): the leading digits of a string, an exponent is not read
ParseInt(x) ==
    CASE x.t = "number" -> IF x.b THEN NaN ELSE Num(Trunc(x.n))
      [] x.t = "string" ->
            LET u == TrimStart(x.s)
                neg == u # <<>> /\ Head(u) = "-"
                v == IF neg THEN Tail(u) ELSE u
                il == DigitsLen(v)
            IN  IF il = 0 THEN NaN
                ELSE Num(IF neg THEN 0 - 10 * DigitsVal(v, il) ELSE 10 * DigitsVal(v, il))
      [] OTHER -> NaN

\* x < bound and x <= bound in JavaScript: false whenever x is NaN
JsLess(x, bound) == ~x.b /\ x.n < bound
JsLessEq(x, bound) == ~x.b /\ x.n <= bound

(***************************************************************************)
(* validateProduk(data).  A product payload is a record of the seven       *)
(* fields the handlers read; a field the JSON body lacks is Undef.         *)
(* The result is threw = TRUE when evaluation ends in a TypeError (trim    *)
(* called on a value that is not a string), else the list of messages.     *)
(***************************************************************************)
MsgKode == "Kode produk wajib diisi"
MsgNama == "Nama produk wajib diisi minimal 3 karakter"
MsgKategori == "Kategori wajib diisi"
MsgHarga == "Harga harus berupa angka dan lebih besar dari 0"
MsgStok == "Stok harus berupa angka dan tidak boleh negatif"

\* x.trim() raises TypeError: x is reached by the call and has no trim method
TrimThrows(x) == ~Falsy(x) /\ x.t # "string"

KodeFails(data) == Falsy(data.kode_produk) \/ Trim(data.kode_produk.s) = <<>>
NamaFails(data) == Falsy(data.nama_produk) \/ Len(Trim(data.nama_produk.s)) < 3
KategoriFails(data) == Falsy(data.kategori) \/ Trim(data.kategori.s) = <<>>
HargaFails(data) ==
    Falsy(data.harga) \/ IsNaN(data.harga) \/ JsLessEq(ParseFloat(data.harga), 0)
StokFails(data) ==
    data.stok = Undef \/ IsNaN(data.stok) \/ JsLess(ParseInt(data.stok), 0)

validateProduk(data) ==
    IF TrimThrows(data.kode_produk) \/ TrimThrows(data.nama_produk)
          \/ TrimThrows(data.kategori)
    THEN [threw |-> TRUE, errors |-> <<>>]
    ELSE [threw |-> FALSE,
          errors |-> (IF KodeFails(data) THEN <<MsgKode>> ELSE <<>>)
                     \o (IF NamaFails(data) THEN <<MsgNama>> ELSE <<>>)
                     \o (IF KategoriFails(data) THEN <<MsgKategori>> ELSE <<>>)
                     \o (IF HargaFails(data) THEN <<MsgHarga>> ELSE <<>>)
                     \o (IF StokFails(data) THEN <<MsgStok>> ELSE <<>>)]

\* data.f ? data.f.trim() : ''
OptTrim(x) == IF Falsy(x) THEN Str(<<>>) ELSE Str(Trim(x.s))

\* building produkBaru / updateData raises TypeError on an optional field
BuildThrows(data) == TrimThrows(data.deskripsi) \/ TrimThrows(data.supplier)

\* the seven normalised fields both write handlers store
NormalFields(data) ==
    [kode_produk |-> Str(Trim(data.kode_produk.s)),
     nama_produk |-> Str(Trim(data.nama_produk.s)),
     kategori |-> Str(Trim(data.kategori.s)),
     harga |-> ParseFloat(data.harga),
     stok |-> ParseInt(data.stok),
     deskripsi |-> OptTrim(data.deskripsi),
     supplier |-> OptTrim(data.supplier)]

\* produkBaru of POST /api/produk, built at time now
produkBaru(data, now) ==
    LET f == NormalFields(data)
    IN  [kode_produk |-> f.kode_produk, nama_produk |-> f.nama_produk,
         kategori |-> f.kategori, harga |-> f.harga, stok |-> f.stok,
         deskripsi |-> f.deskripsi, supplier |-> f.supplier,
         tanggal_dibuat |-> Date(now), tanggal_diupdate |-> Date(now),
         status |-> "aktif"]

\* updateData of PUT /api/produk/:id, built at time now
updateDataProduk(data, now) ==
    LET f == NormalFields(data)
    IN  [kode_produk |-> f.kode_produk, nama_produk |-> f.nama_produk,
         kategori |-> f.kategori, harga |-> f.harga, stok |-> f.stok,
         deskripsi |-> f.deskripsi, supplier |-> f.supplier,
         tanggal_diupdate |-> Date(now)]

\* the document after { $set: upd }: the fields of upd replace or extend doc
SetFields(doc, upd) ==
    [f \in DOMAIN doc \cup DOMAIN upd |->
        IF f \in DOMAIN upd THEN upd[f] ELSE doc[f]]

(***************************************************************************)
(* The store.  A collection is a function from the _id values present to   *)
(* documents; a document is a record of its fields (without _id).          *)
(***************************************************************************)
\* insertOne(doc), the store assigning _id = id
Inserted(coll, id, doc) ==
    [i \in DOMAIN coll \cup {id} |-> IF i = id THEN doc ELSE coll[i]]

\* the collection with document id replaced by doc
Replaced(coll, id, doc) == [coll EXCEPT ![id] = doc]

\* deleteOne({_id: id})
Removed(coll, id) == [i \in DOMAIN coll \ {id} |-> coll[i]]

\* a document as the store returns it: its fields and its _id
WithId(id, doc) == SetFields(doc, [_id |-> id])

\* findOne({_id: new ObjectId(id)})
FindById(coll, id) == IF id \in DOMAIN coll THEN WithId(id, coll[id]) ELSE Null

\* the _ids of the produk documents with kode_produk = kode, other than `except`
KodeHolders(kode, except) ==
    {i \in DOMAIN produk : i # except /\ produk[i].kode_produk = kode}

\* what the unique index idx_kode_produk_unique refuses: a write that would
\* give document id the kode_produk another document holds (error 11000)
DuplicateKey(id, kode) == uniqueIndex /\ KodeHolders(kode, id) # {}

(***************************************************************************)
(* Requests.  An identifier parameter is wf = TRUE when the string has     *)
(* the format of an ObjectId, and then oid is the _id it denotes.          *)
(***************************************************************************)
NoId == [wf |-> FALSE, oid |-> 0]

\* ObjectId.isValid(id)
ObjectIdIsValid(id) == id.wf

Idle ==
    [kind |-> "none", id |-> NoId, body |-> Null, query |-> Null, pc |-> "idle",
     existing |-> Null, upd |-> Null, errors |-> <<>>, err |-> "none",
     status |-> 0, data |-> Null, pagination |-> Null, ops |-> 0, sent |-> 0]

Slots == 1..MaxSlots

\* a request arrives: the server listens and a slot is free (the slots are
\* interchangeable, so a slot never used is taken only after the ones below it)
Accepts(r) ==
    /\ phase = "listening"
    /\ req[r].pc \in {"idle", "done"}
    /\ \A k \in 1..(r - 1) : req[k].pc # "idle"
    /\ issued < MaxIssued

NewRequest(kind, id, body) == [Idle EXCEPT !.kind = kind, !.id = id, !.body = body]

\* res.status(st).json(...): one more response is sent, the handler has
\* answered and its locals are gone
Answer(q, st) ==
    [q EXCEPT !.pc = "done", !.status = st, !.existing = Null, !.upd = Null,
              !.sent = @ + 1]

\* the handler awaits a store operation at pc
Await(q, pc) == [q EXCEPT !.pc = pc]

\* the awaited store operation was issued
Issued(q) == [q EXCEPT !.ops = @ + 1]

At(r, kind, pc) == req[r].kind = kind /\ req[r].pc = pc

\* a handler's catch block: the error is answered 500
Caught(q, err) == [Answer(q, 500) EXCEPT !.err = err]

\* the request of slot r becomes q; the collections are untouched
Step(r, q) ==
    /\ req' = [req EXCEPT ![r] = q]
    /\ UNCHANGED <<reachable, timer, listens, phase, retries, uniqueIndex, clock, posts, produk, nextId, issued>>

\* the request arriving is taken into slot r as q, its handler having run up
\* to its first await
Accept(r, q) ==
    /\ req' = [req EXCEPT ![r] = q]
    /\ issued' = issued + 1
    /\ UNCHANGED <<reachable, timer, listens, phase, retries, uniqueIndex, clock, posts, produk, nextId>>

(***************************************************************************)
(* POST /api/produk                                                        *)
(***************************************************************************)
\* lines 570-585: validate, then ask the store for the kode_produk
ProdukCreateStart(r, body) ==
    /\ Accepts(r)
    /\ LET q == NewRequest("POST /api/produk", NoId, body)
           v == validateProduk(body)
       IN  Accept(r, IF v.threw THEN Caught(q, "TypeError")
                     ELSE IF Len(v.errors) > 0
                          THEN [Answer(q, 400) EXCEPT !.errors = v.errors]
                          ELSE Await(q, "findOne"))

\* lines 583-609: the pre-check answers, produkBaru is built
ProdukCreateFindOne(r) ==
    /\ At(r, "POST /api/produk", "findOne")
    /\ LET q == Issued(req[r])
           kode == Str(Trim(q.body.kode_produk.s))
       IN  Step(r, IF KodeHolders(kode, 0) # {} THEN Answer(q, 409)
                   ELSE IF BuildThrows(q.body) THEN Caught(q, "TypeError")
                   ELSE [Await(q, "insertOne") EXCEPT
                            !.upd = produkBaru(q.body, clock)])

\* lines 609-629: insertOne, a duplicate key error is answered 409
ProdukCreateInsertOne(r) ==
    /\ At(r, "POST /api/produk", "insertOne")
    /\ LET q == Issued(req[r])
       IN  IF DuplicateKey(0, q.upd.kode_produk)
           THEN Step(r, [Answer(q, 409) EXCEPT !.err = "E11000"])
           ELSE /\ produk' = Inserted(produk, nextId, q.upd)
                /\ nextId' = nextId + 1
                /\ req' = [req EXCEPT ![r] =
                        [Answer(q, 201) EXCEPT !.data = WithId(nextId, q.upd)]]
                /\ UNCHANGED <<reachable, timer, listens, phase, retries, uniqueIndex, clock, posts, issued>>

(***************************************************************************)
(* PUT /api/produk/:id                                                     *)
(***************************************************************************)
\* ProdukUpdateStart with the order of its checks swapped: the body is validated before the identifier
ProdukUpdateStartBodyFirst(r, id, body) ==
    /\ Accepts(r)
    /\ LET q == NewRequest("PUT /api/produk/:id", id, body)
           v == validateProduk(body)
       IN  Accept(r, IF v.threw THEN Caught(q, "TypeError")
                     ELSE IF Len(v.errors) > 0
                          THEN [Answer(q, 400) EXCEPT !.errors = v.errors]
                          ELSE IF ~ObjectIdIsValid(id) THEN Answer(q, 400)
                          ELSE Await(q, "findOne"))

\* lines 642-664
ProdukUpdateStart(r, id, body) ==
    /\ Accepts(r)
    /\ LET q == NewRequest("PUT /api/produk/:id", id, body)
           v == validateProduk(body)
       IN  Accept(r, IF ~ObjectIdIsValid(id) THEN Answer(q, 400)
                     ELSE IF v.threw THEN Caught(q, "TypeError")
                     ELSE IF Len(v.errors) > 0
                          THEN [Answer(q, 400) EXCEPT !.errors = v.errors]
                          ELSE Await(q, "findOne"))

\* lines 664-673
ProdukUpdateFindOne(r) ==
    /\ At(r, "PUT /api/produk/:id", "findOne")
    /\ LET q == Issued(req[r])
           existingProduk == FindById(produk, q.id.oid)
       IN  Step(r, IF existingProduk = Null THEN Answer(q, 404)
                   ELSE [Await(q, "dupCheck") EXCEPT !.existing = existingProduk])

\* lines 673-699
ProdukUpdateDupCheck(r) ==
    /\ At(r, "PUT /api/produk/:id", "dupCheck")
    /\ LET q == Issued(req[r])
           kode == Str(Trim(q.body.kode_produk.s))
       IN  Step(r, IF KodeHolders(kode, q.id.oid) # {} THEN Answer(q, 409)
                   ELSE IF BuildThrows(q.body) THEN Caught(q, "TypeError")
                   ELSE [Await(q, "updateOne") EXCEPT
                            !.upd = updateDataProduk(q.body, clock)])

\* the store's answer to updateOne({_id}, {$set: upd}) on collection coll:
\* "none" no document has the _id, "same" the document already holds the
\* values, "dup" the unique index refuses the write, "set" it is written
UpdateOutcome(coll, id, upd, indexed) ==
    IF id \notin DOMAIN coll THEN "none"
    ELSE IF SetFields(coll[id], upd) = coll[id] THEN "same"
    ELSE IF indexed /\ DuplicateKey(id, upd.kode_produk) THEN "dup"
    ELSE "set"

\* lines 699-713 and the catch of lines 720-727: modifiedCount = 0 is
\* answered 400, a duplicate key error is an error like any other
ProdukUpdateOne(r) ==
    /\ At(r, "PUT /api/produk/:id", "updateOne")
    /\ LET q == Issued(req[r])
           id == q.id.oid
           out == UpdateOutcome(produk, id, q.upd, TRUE)
       IN  CASE out = "set" ->
                  /\ produk' = Replaced(produk, id, SetFields(produk[id], q.upd))
                  /\ req' = [req EXCEPT ![r] = Await(q, "refetch")]
                  /\ UNCHANGED <<reachable, timer, listens, phase, retries, uniqueIndex, clock, posts, nextId, issued>>
             [] out = "dup" -> Step(r, Caught(q, "E11000"))
             [] OTHER -> Step(r, Answer(q, 400))

\* lines 713-719
ProdukUpdateRefetch(r) ==
    /\ At(r, "PUT /api/produk/:id", "refetch")
    /\ LET q == Issued(req[r])
       IN  Step(r, [Answer(q, 200) EXCEPT !.data = FindById(produk, q.id.oid)])

(***************************************************************************)
(* DELETE /api/produk/:id                                                  *)
(***************************************************************************)
\* lines 733-744
ProdukDeleteStart(r, id) ==
    /\ Accepts(r)
    /\ LET q == NewRequest("DELETE /api/produk/:id", id, Null)
       IN  Accept(r, IF ~ObjectIdIsValid(id) THEN Answer(q, 400)
                     ELSE Await(q, "findOne"))

\* lines 744-753
ProdukDeleteFindOne(r) ==
    /\ At(r, "DELETE /api/produk/:id", "findOne")
    /\ LET q == Issued(req[r])
           existingProduk == FindById(produk, q.id.oid)
       IN  Step(r, IF existingProduk = Null THEN Answer(q, 404)
                   ELSE [Await(q, "deleteOne") EXCEPT !.existing = existingProduk])

\* lines 753-759: the result of deleteOne is not looked at
ProdukDeleteOne(r) ==
    /\ At(r, "DELETE /api/produk/:id", "deleteOne")
    /\ LET q == Issued(req[r])
       IN  /\ produk' = Removed(produk, q.id.oid)
           /\ req' = [req EXCEPT ![r] = [Answer(q, 200) EXCEPT !.data = q.existing]]
           /\ UNCHANGED <<reachable, timer, listens, phase, retries, uniqueIndex, clock, posts, nextId, issued>>

(***************************************************************************)
(* GET /api/produk/:id                                                     *)
(***************************************************************************)
\* lines 530-541
ProdukGetStart(r, id) ==
    /\ Accepts(r)
    /\ LET q == NewRequest("GET /api/produk/:id", id, Null)
       IN  Accept(r, IF ~ObjectIdIsValid(id) THEN Answer(q, 400)
                     ELSE Await(q, "findOne"))

\* lines 541-556
ProdukGetFindOne(r) ==
    /\ At(r, "GET /api/produk/:id", "findOne")
    /\ LET q == Issued(req[r])
           found == FindById(produk, q.id.oid)
       IN  Step(r, IF found = Null THEN Answer(q, 404)
                   ELSE [Answer(q, 200) EXCEPT !.data = found])

(***************************************************************************)
(* POST /posts.  A post body is the record of the keys the JSON object     *)
(* holds, so Object.keys(body) is DOMAIN body.                             *)
(***************************************************************************)
\* lines 275-290
PostCreateStart(r, body) ==
    /\ Accepts(r)
    /\ LET q == NewRequest("POST /posts", NoId, body)
           postBaru == SetFields(body, [created_at |-> Date(clock),
                                        updated_at |-> Date(clock)])
       IN  Accept(r, IF DOMAIN body = {} THEN Answer(q, 400)
                     ELSE [Await(q, "insertOne") EXCEPT !.upd = postBaru])

\* lines 290-299
PostInsertOne(r) ==
    /\ At(r, "POST /posts", "insertOne")
    /\ LET q == Issued(req[r])
       IN  /\ posts' = Inserted(posts, nextId, q.upd)
           /\ nextId' = nextId + 1
           /\ req' = [req EXCEPT ![r] =
                   [Answer(q, 201) EXCEPT !.data = WithId(nextId, q.upd)]]
           /\ UNCHANGED <<reachable, timer, listens, phase, retries, uniqueIndex, clock, produk, issued>>

(***************************************************************************)
(* PUT /posts/:id                                                          *)
(***************************************************************************)
\* lines 313-333
PostUpdateStart(r, id, body) ==
    /\ Accepts(r)
    /\ LET q == NewRequest("PUT /posts/:id", id, body)
       IN  Accept(r, IF ~ObjectIdIsValid(id) THEN Answer(q, 400)
                     ELSE IF DOMAIN body = {} THEN Answer(q, 400)
                     ELSE Await(q, "findOne"))

\* lines 333-348: dataToUpdate is the body with updated_at stamped last
PostUpdateFindOne(r) ==
    /\ At(r, "PUT /posts/:id", "findOne")
    /\ LET q == Issued(req[r])
           existingPost == FindById(posts, q.id.oid)
           dataToUpdate == SetFields(q.body, [updated_at |-> Date(clock)])
       IN  Step(r, IF existingPost = Null THEN Answer(q, 404)
                   ELSE [Await(q, "updateOne") EXCEPT
                            !.existing = existingPost, !.upd = dataToUpdate])

\* lines 348-361
PostUpdateOne(r) ==
    /\ At(r, "PUT /posts/:id", "updateOne")
    /\ LET q == Issued(req[r])
           id == q.id.oid
           out == UpdateOutcome(posts, id, q.upd, FALSE)
       IN  IF out = "set"
           THEN /\ posts' = Replaced(posts, id, SetFields(posts[id], q.upd))
                /\ req' = [req EXCEPT ![r] = Await(q, "refetch")]
                /\ UNCHANGED <<reachable, timer, listens, phase, retries, uniqueIndex, clock, produk, nextId, issued>>
           ELSE Step(r, Answer(q, 400))

\* lines 361-367
PostUpdateRefetch(r) ==
    /\ At(r, "PUT /posts/:id", "refetch")
    /\ LET q == Issued(req[r])
       IN  Step(r, [Answer(q, 200) EXCEPT !.data = FindById(posts, q.id.oid)])

(***************************************************************************)
(* DELETE /posts/:id                                                       *)
(***************************************************************************)
\* lines 381-392
PostDeleteStart(r, id) ==
    /\ Accepts(r)
    /\ LET q == NewRequest("DELETE /posts/:id", id, Null)
       IN  Accept(r, IF ~ObjectIdIsValid(id) THEN Answer(q, 400)
                     ELSE Await(q, "findOne"))

\* lines 392-401
PostDeleteFindOne(r) ==
    /\ At(r, "DELETE /posts/:id", "findOne")
    /\ LET q == Issued(req[r])
           existingPost == FindById(posts, q.id.oid)
       IN  Step(r, IF existingPost = Null THEN Answer(q, 404)
                   ELSE [Await(q, "deleteOne") EXCEPT !.existing = existingPost])

\* lines 401-407: the result of deleteOne is not looked at
PostDeleteOne(r) ==
    /\ At(r, "DELETE /posts/:id", "deleteOne")
    /\ LET q == Issued(req[r])
       IN  /\ posts' = Removed(posts, q.id.oid)
           /\ req' = [req EXCEPT ![r] = [Answer(q, 200) EXCEPT !.data = q.existing]]
           /\ UNCHANGED <<reachable, timer, listens, phase, retries, uniqueIndex, clock, produk, nextId, issued>>

(***************************************************************************)
(* GET /posts/:id                                                          *)
(***************************************************************************)
\* lines 183-193
PostGetStart(r, id) ==
    /\ Accepts(r)
    /\ LET q == NewRequest("GET /posts/:id", id, Null)
       IN  Accept(r, IF ~ObjectIdIsValid(id) THEN Answer(q, 400)
                     ELSE Await(q, "findOne"))

\* lines 193-205
PostGetFindOne(r) ==
    /\ At(r, "GET /posts/:id", "findOne")
    /\ LET q == Issued(req[r])
           post == FindById(posts, q.id.oid)
       IN  Step(r, IF post = Null THEN Answer(q, 404)
                   ELSE [Answer(q, 200) EXCEPT !.data = post])

(***************************************************************************)
(* Failures, time and startup.                                             *)
(***************************************************************************)
AwaitPcs ==
    {"findOne", "dupCheck", "insertOne", "updateOne", "refetch", "deleteOne",
     "find", "countDocuments", "countPosts", "countProduk"}

\* StoreFails with the await outside any try block: the rejection is not
\* caught, no response is sent and the process ends
StoreFailsUncaught(r) ==
    /\ req[r].pc \in AwaitPcs
    /\ phase' = "crashed"
    /\ UNCHANGED <<reachable, timer, listens, retries, uniqueIndex, clock, posts,
                   produk, nextId, req, issued>>

\* the awaited store operation rejects (connection lost, server error): the
\* handler's catch answers 500; the error carries no code 11000
StoreFails(r) ==
    /\ req[r].pc \in AwaitPcs
    /\ Step(r, Caught(Issued(req[r]), "StoreError"))

\* time passes
Tick ==
    /\ clock < MaxClock
    /\ clock' = clock + 1
    /\ UNCHANGED <<reachable, timer, listens, phase, retries, uniqueIndex, posts, produk, nextId, req, issued>>

\* the store comes up or goes down while the server is starting
StoreUp ==
    /\ phase = "starting"
    /\ ~reachable
    /\ reachable' = TRUE
    /\ UNCHANGED <<timer, listens, phase, retries, uniqueIndex, clock, posts, produk,
                   nextId, req, issued>>

StoreDown ==
    /\ phase = "starting"
    /\ reachable
    /\ reachable' = FALSE
    /\ UNCHANGED <<timer, listens, phase, retries, uniqueIndex, clock, posts, produk,
                   nextId, req, issued>>

BackoffBase == 1000
BackoffCap == 30000

Min(a, b) == IF a < b THEN a ELSE b

\* Math.pow(2, n)
RECURSIVE MathPow2(_)
MathPow2(n) == IF n = 0 THEN 1 ELSE 2 * MathPow2(n - 1)

\* the delay without its ceiling
delayUncapped(n) == BackoffBase * MathPow2(n)

\* line 97: const delay = Math.min(30000, 1000 * Math.pow(2, retries))
delay(n) == Min(BackoffCap, BackoffBase * MathPow2(n))

\* lines 31-52 and 94-100: connecting or provisioning the collections
\* fails; the catch schedules connectWithRetry(retries + 1) after the delay
ConnectFails ==
    /\ phase = "starting"
    /\ ~reachable
    /\ retries < MaxRetries
    /\ retries' = retries + 1
    /\ timer' = delay(retries)
    /\ UNCHANGED <<reachable, listens, phase, uniqueIndex, clock, posts, produk,
                   nextId, req, issued>>

\* lines 31-93 with the createIndex of lines 57-60 succeeding: app.listen is
\* called and no further attempt is pending
ConnectSucceeds ==
    /\ phase = "starting"
    /\ reachable
    /\ phase' = "listening"
    /\ listens' = listens + 1
    /\ uniqueIndex' = TRUE
    /\ retries' = 0
    /\ timer' = 0
    /\ UNCHANGED <<reachable, clock, posts, produk, nextId, req, issued>>

\* lines 31-93 with the createIndex of lines 57-60 rejecting: the catch of
\* lines 84-89 logs the error and app.listen is called all the same
ConnectIndexFails ==
    /\ phase = "starting"
    /\ reachable
    /\ phase' = "listening"
    /\ listens' = listens + 1
    /\ uniqueIndex' = FALSE
    /\ retries' = 0
    /\ timer' = 0
    /\ UNCHANGED <<reachable, clock, posts, produk, nextId, req, issued>>

(***************************************************************************)
(* The requests the model sends.                                           *)
(***************************************************************************)
MaxOid == 1       \* well-formed identifiers requests may carry: 1..MaxOid

IdParams == {NoId} \cup {[wf |-> TRUE, oid |-> i] : i \in 1..MaxOid}

Payload(kode, nama, kategori, harga, stok) ==
    [kode_produk |-> kode, nama_produk |-> nama, kategori |-> kategori,
     harga |-> harga, stok |-> stok, deskripsi |-> Undef, supplier |-> Undef]

Pen == Str(<<"P", "e", "n">>)
Office == Str(<<"O", "f">>)

\* {kode_produk:"P1", nama_produk:"Pen", kategori:"Of", harga:5, stok:10}
PayloadP1 == Payload(Str(<<"P", "1">>), Pen, Office, Num(50), Num(100))
\* the same kode_produk with blanks around it, numbers sent as strings:
\* harga "2.5", stok "1e2"
PayloadP1b == Payload(Str(<<" ", "P", "1", " ">>), Pen, Office,
                      Str(<<"2", ".", "5">>), Str(<<"1", "e", "2">>))
PayloadP2 == Payload(Str(<<"P", "2">>), Pen, Office, Num(50), Num(100))
\* harga: true, stok: null
PayloadOdd == Payload(Str(<<"P", "5">>), Pen, Office, Bool(TRUE), Null)
\* kode_produk: 1 (a number)
PayloadNumKode == Payload(Num(10), Pen, Office, Num(50), Num(100))
\* nama_produk of two characters
PayloadShort == Payload(Str(<<"P", "2">>), Str(<<"P", "e">>), Office, Num(50), Num(100))

ProdukBodies ==
    {PayloadP1, PayloadP1b, PayloadP2, PayloadOdd, PayloadNumKode, PayloadShort}

EmptyBody == [f \in {} |-> Null]

PostBodies ==
    {EmptyBody,
     [title |-> Str(<<"a">>)],
     [title |-> Str(<<"b">>), created_at |-> Str(<<"2", "0">>)]}

(***************************************************************************)
(* The server: startup, then the CRUD handlers of both collections.        *)
(***************************************************************************)
Init ==
    /\ reachable \in BOOLEAN
    /\ timer = 0
    /\ listens = 0
    /\ phase = "starting"
    /\ retries = 0
    /\ uniqueIndex = FALSE
    /\ clock = 0
    /\ posts = [i \in {} |-> Null]
    /\ produk = [i \in {} |-> Null]
    /\ nextId = 1
    /\ req = [r \in Slots |-> Idle]
    /\ issued = 0

Next ==
    \/ StoreUp
    \/ StoreDown
    \/ ConnectFails
    \/ ConnectSucceeds
    \/ ConnectIndexFails
    \/ Tick
    \/ \E r \in Slots :
        \/ \E body \in ProdukBodies : ProdukCreateStart(r, body)
        \/ ProdukCreateFindOne(r)
        \/ ProdukCreateInsertOne(r)
        \/ \E id \in IdParams, body \in ProdukBodies : ProdukUpdateStart(r, id, body)
        \/ ProdukUpdateFindOne(r)
        \/ ProdukUpdateDupCheck(r)
        \/ ProdukUpdateOne(r)
        \/ ProdukUpdateRefetch(r)
        \/ \E id \in IdParams : ProdukDeleteStart(r, id)
        \/ ProdukDeleteFindOne(r)
        \/ ProdukDeleteOne(r)
        \/ \E id \in IdParams : ProdukGetStart(r, id)
        \/ ProdukGetFindOne(r)
        \/ \E body \in PostBodies : PostCreateStart(r, body)
        \/ PostInsertOne(r)
        \/ \E id \in IdParams, body \in PostBodies : PostUpdateStart(r, id, body)
        \/ PostUpdateFindOne(r)
        \/ PostUpdateOne(r)
        \/ PostUpdateRefetch(r)
        \/ \E id \in IdParams : PostDeleteStart(r, id)
        \/ PostDeleteFindOne(r)
        \/ PostDeleteOne(r)
        \/ \E id \in IdParams : PostGetStart(r, id)
        \/ PostGetFindOne(r)
        \/ StoreFails(r)

Spec == Init /\ [][Next]_vars

(***************************************************************************)
(* Properties of the CRUD handlers, checked under Spec.                    *)
(***************************************************************************)
\* slot r has just taken a step of its handler
Stepped(r) == req'[r] # req[r] /\ req[r].pc \notin {"idle", "done"}

\* the payload passes validation and both documents can be built from it
ValidPayload(body) ==
    /\ ~validateProduk(body).threw
    /\ validateProduk(body).errors = <<>>
    /\ ~BuildThrows(body)

\* C1: in every reachable state no two documents of the produk collection
\* have the same kode_produk.
C1_KodeProdukUnique ==
    \A i, j \in DOMAIN produk :
        i # j => produk[i].kode_produk # produk[j].kode_produk

\* C2: when the only two requests so far are product creates with the same
\* kode_produk (after trimming) and valid payloads, and both are answered
\* without a store failure, one is answered 201 and the other 409, and the
\* store holds exactly one document with that kode_produk.
C2_OneCreatedOneConflict ==
    \A r1, r2 \in Slots :
        ( /\ r1 < r2
          /\ issued = 2
          /\ req[r1].kind = "POST /api/produk" /\ req[r1].pc = "done"
          /\ req[r2].kind = "POST /api/produk" /\ req[r2].pc = "done"
          /\ ValidPayload(req[r1].body) /\ ValidPayload(req[r2].body)
          /\ Trim(req[r1].body.kode_produk.s) = Trim(req[r2].body.kode_produk.s)
          /\ req[r1].status # 500 /\ req[r2].status # 500 )
        => /\ {req[r1].status, req[r2].status} = {201, 409}
           /\ Cardinality(KodeHolders(Str(Trim(req[r1].body.kode_produk.s)), 0)) = 1

\* C3: with the unique index in place, a product update whose new
\* kode_produk is held by a different document when the handler checks or
\* when the store applies the write is answered 409 and changes no document;
\* and an update answered 409 does not keep the document's own kode_produk.
C3_UpdateCollisionIsConflict ==
    [][\A r \in Slots :
        ( /\ uniqueIndex
          /\ req[r].kind = "PUT /api/produk/:id"
          /\ Stepped(r)
          /\ req'[r].err # "StoreError" )
        => /\ ( /\ req[r].pc \in {"dupCheck", "updateOne"}
                /\ req[r].id.oid \in DOMAIN produk
                /\ KodeHolders(Str(Trim(req[r].body.kode_produk.s)), req[r].id.oid) # {} )
              => (req'[r].status = 409 /\ produk' = produk)
           /\ req'[r].status = 409
              => req[r].existing.kode_produk # Str(Trim(req[r].body.kode_produk.s))
      ]_vars

\* the seven fields of the payload, normalised, are the values document doc holds
SameValues(body, doc) ==
    \A f \in DOMAIN NormalFields(body) : NormalFields(body)[f] = doc[f]

\* C4: a product update of an existing document whose payload values all
\* equal the stored values is answered 400 ("no change").
C4_UnchangedUpdateIs400 ==
    [][\A r \in Slots :
        ( /\ At(r, "PUT /api/produk/:id", "updateOne")
          /\ Stepped(r)
          /\ req'[r].err # "StoreError"
          /\ req[r].id.oid \in DOMAIN produk
          /\ SameValues(req[r].body, produk[req[r].id.oid]) )
        => req'[r].status = 400
      ]_vars

\* C5: the write of an update (posts or products) leaves the document's
\* creation timestamp as it was and stamps the update timestamp with the
\* time the handler took.
C5_UpdateKeepsCreationTime ==
    [][\A r \in Slots :
        /\ ( At(r, "PUT /posts/:id", "updateOne") /\ req'[r].pc = "refetch" )
            => LET id == req[r].id.oid
               IN  /\ posts'[id].created_at = posts[id].created_at
                   /\ posts'[id].updated_at = req[r].upd.updated_at
        /\ ( At(r, "PUT /api/produk/:id", "updateOne") /\ req'[r].pc = "refetch" )
            => LET id == req[r].id.oid
               IN  /\ produk'[id].tanggal_dibuat = produk[id].tanggal_dibuat
                   /\ produk'[id].tanggal_diupdate = req[r].upd.tanggal_diupdate
      ]_vars

\* a JavaScript string that is trimmed and has at least min characters
TrimmedString(x, min) == x.t = "string" /\ Trim(x.s) = x.s /\ Len(x.s) >= min

\* the Product schema of the data model
ProductSchema(doc) ==
    /\ TrimmedString(doc.kode_produk, 1)
    /\ TrimmedString(doc.nama_produk, 3)
    /\ TrimmedString(doc.kategori, 1)
    /\ doc.harga.t = "number" /\ ~doc.harga.b /\ doc.harga.n > 0
    /\ doc.stok.t = "number" /\ ~doc.stok.b /\ doc.stok.n >= 0
    /\ doc.stok.n % 10 = 0

\* C6: every document of the produk collection (all of them written by the
\* create or the update endpoint) satisfies the Product schema.
C6_StoredProductsSatisfySchema ==
    \A i \in DOMAIN produk : ProductSchema(produk[i])

ByIdKinds ==
    {"GET /posts/:id", "PUT /posts/:id", "DELETE /posts/:id",
     "GET /api/produk/:id", "PUT /api/produk/:id", "DELETE /api/produk/:id"}

\* C9: a get-by-id, update or delete request whose identifier is malformed
\* is answered 400 at once, having issued no store operation, whatever its
\* body is.
C9_MalformedIdIs400 ==
    \A r \in Slots :
        (req[r].kind \in ByIdKinds /\ ~req[r].id.wf)
        => (req[r].pc = "done" /\ req[r].status = 400 /\ req[r].ops = 0)

\* C9 witness: an update with a malformed identifier and a body on which
\* validateProduk would throw has been answered 400.
C9_Witness ==
    \E r \in Slots :
        /\ req[r].kind = "PUT /api/produk/:id"
        /\ ~req[r].id.wf
        /\ validateProduk(req[r].body).threw
        /\ req[r].status = 400

\* C10: a delete is answered 200 only when the document existed as the
\* store applied the delete, so that this request removed it.
C10_DeleteAnswered200Removed ==
    [][\A r \in Slots :
        /\ ( At(r, "DELETE /posts/:id", "deleteOne") /\ req'[r].status = 200 )
            => (req[r].id.oid \in DOMAIN posts /\ req[r].id.oid \notin DOMAIN posts')
        /\ ( At(r, "DELETE /api/produk/:id", "deleteOne") /\ req'[r].status = 200 )
            => (req[r].id.oid \in DOMAIN produk /\ req[r].id.oid \notin DOMAIN produk')
      ]_vars

UpdateKinds == {"PUT /posts/:id", "PUT /api/produk/:id"}

\* the collection an update request writes to
Target(q) == IF q.kind = "PUT /posts/:id" THEN posts ELSE produk

\* C11: an update (posts or products) answered 200 carries in data the
\* post-update document: not null, with the requested identifier, and
\* holding every value this request wrote.
C11_UpdateReturnsWrittenDocument ==
    [][\A r \in Slots :
        ( /\ req[r].kind \in UpdateKinds
          /\ req[r].pc = "refetch"
          /\ req'[r].status = 200 )
        => /\ req'[r].data # Null
           /\ req'[r].data._id = req[r].id.oid
           /\ \A f \in DOMAIN req[r].upd : req'[r].data[f] = req[r].upd[f]
      ]_vars

\* C17: when the store answers the write of an update (posts or products),
\* the request is answered 400 ("no change") only if the document exists at
\* that moment; if it has been removed since the handler's existence check,
\* the request is answered 404.
C17_UpdateOfRemovedIs404 ==
    [][\A r \in Slots :
        ( /\ req[r].kind \in UpdateKinds
          /\ req[r].pc = "updateOne"
          /\ Stepped(r)
          /\ req'[r].err # "StoreError" )
        => /\ req'[r].status = 400 => req[r].id.oid \in DOMAIN Target(req[r])
           /\ req[r].id.oid \notin DOMAIN Target(req[r]) => req'[r].status = 404
      ]_vars

(***************************************************************************)
(* GET /posts and GET /api/produk: filter, page, count.                    *)
(* A query is the record of the parameters of the query string, each a     *)
(* string or Undef.  A filter is a function from the keys it holds to      *)
(* predicates; the letters of the inputs have one case only, so a regex   *)
(* with option 'i' over them is a substring test.                          *)
(***************************************************************************)
DefaultPage == 1
DefaultLimit == 10

Query(search, kategori, min_harga, max_harga, page, limit) ==
    [search |-> search, kategori |-> kategori, min_harga |-> min_harga,
     max_harga |-> max_harga, page |-> page, limit |-> limit]

\* { $regex: pat, $options: 'i' } on any of the fields
Regex(fields, pat) == [op |-> "regex", fields |-> fields, pat |-> pat]

\* { $gte: .., $lte: .. } on harga, a bound that is absent being Undef
Range(gte, lte) == [op |-> "range", gte |-> gte, lte |-> lte]

NoFilter == [k \in {} |-> Null]

Contains(s, pat) ==
    \E i \in 1..(Len(s) - Len(pat) + 1) : SubSeq(s, i, i + Len(pat) - 1) = pat

\* document doc satisfies predicate pred
Match(doc, pred) ==
    IF pred.op = "regex"
    THEN \E f \in pred.fields :
            f \in DOMAIN doc /\ doc[f].t = "string" /\ Contains(doc[f].s, pred.pat)
    ELSE /\ doc.harga.t = "number" /\ ~doc.harga.b
         /\ pred.gte # Undef => (~pred.gte.b /\ doc.harga.n >= pred.gte.n)
         /\ pred.lte # Undef => (~pred.lte.b /\ doc.harga.n <= pred.lte.n)

\* the _ids of the documents of coll that satisfy every predicate of filter
Matching(coll, filter) ==
    {i \in DOMAIN coll : \A k \in DOMAIN filter : Match(coll[i], filter[k])}

\* lines 135-144: the filter of GET /posts
PostListFilter(query) ==
    IF Falsy(query.search) THEN NoFilter
    ELSE [k \in {"$or"} |-> Regex({"title", "content", "author"}, query.search.s)]

\* lines 464-484: the filter of GET /api/produk
ProdukListFilter(query) ==
    LET keys == (IF Falsy(query.search) THEN {} ELSE {"$or"})
                \cup (IF Falsy(query.kategori) THEN {} ELSE {"kategori"})
                \cup (IF Falsy(query.min_harga) /\ Falsy(query.max_harga)
                      THEN {} ELSE {"harga"})
    IN  [k \in keys |->
            CASE k = "$or" -> Regex({"nama_produk", "deskripsi"}, query.search.s)
              [] k = "kategori" -> Regex({"kategori"}, query.kategori.s)
              [] OTHER ->
                    Range(IF Falsy(query.min_harga) THEN Undef
                          ELSE ParseFloat(query.min_harga),
                          IF Falsy(query.max_harga) THEN Undef
                          ELSE ParseFloat(query.max_harga))]

\* parseInt(x) of a parameter with default d (const { page = 1 } = req.query),
\* as an integer
IntParam(x, d) == IF x = Undef THEN d ELSE ParseInt(x).n \div 10

pageNum(query) == IntParam(query.page, DefaultPage)
limitNum(query) == IntParam(query.limit, DefaultLimit)
skip(query) == (pageNum(query) - 1) * limitNum(query)

\* total / limitNum rounded down (Math.floor) where the source rounds up
MathFloorDiv(total, limit) == total \div limit

\* Math.ceil(total / limitNum) for limitNum >= 1
MathCeilDiv(total, limit) ==
    IF total % limit = 0 THEN total \div limit ELSE (total \div limit) + 1

\* lines 160-167 and 502-509
Pagination(query, total) ==
    [current_page |-> pageNum(query),
     total_pages |-> MathCeilDiv(total, limitNum(query)),
     total_data |-> total,
     per_page |-> limitNum(query),
     has_next |-> pageNum(query) < MathCeilDiv(total, limitNum(query)),
     has_prev |-> pageNum(query) > 1]

\* number of documents find(filter).skip(s).limit(l) returns out of n matches
PageLength(n, s, l) ==
    IF n - s <= 0 THEN 0 ELSE IF n - s < l THEN n - s ELSE l

\* a list request is accepted: the model sends lists among the first
\* MaxListed requests of a behaviour only
MaxListed == 1

ListStart(r, kind, query) ==
    /\ issued < MaxListed
    /\ Accepts(r)
    /\ Accept(r, [Await(NewRequest(kind, NoId, Null), "find") EXCEPT !.query = query])

\* find(filter).sort(..).skip(skip).limit(limitNum).toArray(); the store
\* rejects a negative skip, which the handler's catch answers 500
ListFind(r, coll, filter) ==
    LET q == Issued(req[r])
        n == Cardinality(Matching(coll, filter))
    IN  Step(r, IF skip(q.query) < 0 THEN Caught(q, "StoreError")
                ELSE [Await(q, "countDocuments") EXCEPT
                         !.data = [length |->
                             PageLength(n, skip(q.query), limitNum(q.query))]])

\* countDocuments(filter) and the response
ListCount(r, coll, filter) ==
    LET q == Issued(req[r])
        total == Cardinality(Matching(coll, filter))
    IN  Step(r, [Answer(q, 200) EXCEPT !.pagination = Pagination(q.query, total)])

\* lines 129-132
PostListStart(r, query) ==
    /\ phase = "listening"
    /\ ListStart(r, "GET /posts", query)
\* lines 147-152
PostListFind(r) ==
    /\ At(r, "GET /posts", "find")
    /\ ListFind(r, posts, PostListFilter(req[r].query))
\* lines 155-169
PostListCount(r) ==
    /\ At(r, "GET /posts", "countDocuments")
    /\ ListCount(r, posts, PostListFilter(req[r].query))

\* lines 458-461
ProdukListStart(r, query) ==
    /\ phase = "listening"
    /\ ListStart(r, "GET /api/produk", query)
\* lines 487-492
ProdukListFind(r) ==
    /\ At(r, "GET /api/produk", "find")
    /\ ListFind(r, produk, ProdukListFilter(req[r].query))
\* lines 495-516
ProdukListCount(r) ==
    /\ At(r, "GET /api/produk", "countDocuments")
    /\ ListCount(r, produk, ProdukListFilter(req[r].query))

(***************************************************************************)
(* GET /posts/search/advanced and GET /api/produk/search/advanced.         *)
(***************************************************************************)
PostSearchLimit == 50
ProdukSearchLimit == 100

PostSearchQuery(title, author, content, date_from, date_to) ==
    [title |-> title, author |-> author, content |-> content,
     date_from |-> date_from, date_to |-> date_to]

ProdukSearchQuery(nama, kode, kategori, min_harga, max_harga, supplier, stok_kosong) ==
    [nama |-> nama, kode |-> kode, kategori |-> kategori, min_harga |-> min_harga,
     max_harga |-> max_harga, supplier |-> supplier, stok_kosong |-> stok_kosong]

\* { $gte: .., $lte: .. } on a field, a bound that is absent being Undef
FieldRange(f, gte, lte) == [op |-> "fieldrange", field |-> f, gte |-> gte, lte |-> lte]

\* new Date(x) for a query string: a string of digits is taken as the tick
\* it spells, any other string gives an Invalid Date (b = TRUE)
NewDate(x) ==
    IF x.s # <<>> /\ DigitsLen(x.s) = Len(x.s)
    THEN Date(DigitsVal(x.s, Len(x.s)))
    ELSE [t |-> "date", b |-> TRUE, n |-> 0, s |-> <<>>]

\* document doc satisfies predicate pred; a bound is compared with values of
\* its own type only, and an invalid bound with none
SearchMatch(doc, pred) ==
    IF pred.op = "fieldrange"
    THEN /\ pred.field \in DOMAIN doc
         /\ ~doc[pred.field].b
         /\ pred.gte # Undef =>
                /\ pred.gte.t = doc[pred.field].t /\ ~pred.gte.b
                /\ doc[pred.field].n >= pred.gte.n
         /\ pred.lte # Undef =>
                /\ pred.lte.t = doc[pred.field].t /\ ~pred.lte.b
                /\ doc[pred.field].n <= pred.lte.n
    ELSE Match(doc, pred)

SearchMatching(coll, filter) ==
    {i \in DOMAIN coll : \A k \in DOMAIN filter : SearchMatch(coll[i], filter[k])}

\* line 221 with `=== undefined` in place of `!`: an empty value counts
PostSearchNoneDefined(query) ==
    \A k \in DOMAIN query : query[k] = Undef

\* line 221: no parameter is truthy
PostSearchNone(query) ==
    /\ Falsy(query.title) /\ Falsy(query.author) /\ Falsy(query.content)
    /\ Falsy(query.date_from) /\ Falsy(query.date_to)

\* line 776: no parameter is truthy
ProdukSearchNone(query) ==
    /\ Falsy(query.nama) /\ Falsy(query.kode) /\ Falsy(query.kategori)
    /\ Falsy(query.min_harga) /\ Falsy(query.max_harga)
    /\ Falsy(query.supplier) /\ Falsy(query.stok_kosong)

\* lines 229-248: the filter of GET /posts/search/advanced
PostSearchFilter(query) ==
    LET keys == (IF Falsy(query.title) THEN {} ELSE {"title"})
                \cup (IF Falsy(query.author) THEN {} ELSE {"author"})
                \cup (IF Falsy(query.content) THEN {} ELSE {"content"})
                \cup (IF Falsy(query.date_from) /\ Falsy(query.date_to)
                      THEN {} ELSE {"created_at"})
    IN  [k \in keys |->
            CASE k = "title" -> Regex({"title"}, query.title.s)
              [] k = "author" -> Regex({"author"}, query.author.s)
              [] k = "content" -> Regex({"content"}, query.content.s)
              [] OTHER ->
                    FieldRange("created_at",
                               IF Falsy(query.date_from) THEN Undef
                               ELSE NewDate(query.date_from),
                               IF Falsy(query.date_to) THEN Undef
                               ELSE NewDate(query.date_to))]

\* lines 784-816: the filter of GET /api/produk/search/advanced
ProdukSearchFilter(query) ==
    LET keys == (IF Falsy(query.nama) THEN {} ELSE {"nama_produk"})
                \cup (IF Falsy(query.kode) THEN {} ELSE {"kode_produk"})
                \cup (IF Falsy(query.kategori) THEN {} ELSE {"kategori"})
                \cup (IF Falsy(query.supplier) THEN {} ELSE {"supplier"})
                \cup (IF Falsy(query.min_harga) /\ Falsy(query.max_harga)
                      THEN {} ELSE {"harga"})
                \cup (IF query.stok_kosong = Str(<<"t", "r", "u", "e">>)
                      THEN {"stok"} ELSE {})
    IN  [k \in keys |->
            CASE k = "nama_produk" -> Regex({"nama_produk"}, query.nama.s)
              [] k = "kode_produk" -> Regex({"kode_produk"}, query.kode.s)
              [] k = "kategori" -> Regex({"kategori"}, query.kategori.s)
              [] k = "supplier" -> Regex({"supplier"}, query.supplier.s)
              [] k = "harga" ->
                    Range(IF Falsy(query.min_harga) THEN Undef
                          ELSE ParseFloat(query.min_harga),
                          IF Falsy(query.max_harga) THEN Undef
                          ELSE ParseFloat(query.max_harga))
              [] OTHER -> FieldRange("stok", Undef, Num(0))]

\* the handler up to its await: 400 when no parameter is given
SearchStart(r, kind, query, none) ==
    /\ Accepts(r)
    /\ LET q == [NewRequest(kind, NoId, Null) EXCEPT !.query = query]
       IN  Accept(r, IF none THEN Answer(q, 400) ELSE Await(q, "find"))

\* find(filter).sort(..).limit(limit).toArray() and the response, which
\* carries the documents found and the filter used
SearchFind(r, coll, filter, limit) ==
    LET q == Issued(req[r])
        found == SearchMatching(coll, filter)
    IN  Step(r, [Answer(q, 200) EXCEPT
                    !.data = [length |-> Min(Cardinality(found), limit),
                              found |-> found,
                              filter_used |-> DOMAIN filter]])

\* lines 219-226
PostSearchStart(r, query) ==
    /\ phase = "listening"
    /\ SearchStart(r, "GET /posts/search/advanced", query, PostSearchNone(query))
\* lines 229-261
PostSearchFind(r) ==
    /\ At(r, "GET /posts/search/advanced", "find")
    /\ SearchFind(r, posts, PostSearchFilter(req[r].query), PostSearchLimit)

\* lines 773-781
ProdukSearchStart(r, query) ==
    /\ phase = "listening"
    /\ SearchStart(r, "GET /api/produk/search/advanced", query, ProdukSearchNone(query))
\* lines 784-830
ProdukSearchFind(r) ==
    /\ At(r, "GET /api/produk/search/advanced", "find")
    /\ SearchFind(r, produk, ProdukSearchFilter(req[r].query), ProdukSearchLimit)

(***************************************************************************)
(* GET /health                                                             *)
(***************************************************************************)
\* lines 846-849
HealthStart(r) ==
    /\ Accepts(r)
    /\ Accept(r, Await(NewRequest("GET /health", NoId, Null), "countPosts"))

\* lines 849-850
HealthCountPosts(r) ==
    /\ At(r, "GET /health", "countPosts")
    /\ LET q == Issued(req[r])
       IN  Step(r, [Await(q, "countProduk") EXCEPT
                       !.data = [total_posts |-> Cardinality(DOMAIN posts)]])

\* lines 850-881
HealthCountProduk(r) ==
    /\ At(r, "GET /health", "countProduk")
    /\ LET q == Issued(req[r])
       IN  Step(r, [Answer(q, 200) EXCEPT
                       !.data = [total_posts |-> q.data.total_posts,
                                 total_produk |-> Cardinality(DOMAIN produk)]])

(***************************************************************************)
(* The list handlers over a populated store, checked under SpecPage.       *)
(***************************************************************************)
PageParams == {Undef} \cup {Str(<<c>>) : c \in Digits}
LimitParams == {Undef} \cup {Str(<<c>>) : c \in Digits \ {"0"}}

PostQueries ==
    {Query(s, Undef, Undef, Undef, p, l) :
        s \in {Undef, Str(<<"a">>)}, p \in PageParams, l \in LimitParams}

ProdukQueries ==
    {Query(f[1], f[2], f[3], f[4], p, l) :
        f \in {<<Undef, Undef, Undef, Undef>>,
               <<Undef, Str(<<"a">>), Undef, Undef>>,
               <<Undef, Undef, Str(<<"2">>), Str(<<"5">>)>>,
               <<Str(<<"e">>), Undef, Undef, Str(<<"2", ".", "5">>)>>},
        p \in PageParams, l \in LimitParams}

\* the documents i = 1, 2, .. the store holds at the start: posts created
\* by POST /posts, products created by POST /api/produk with kode_produk
\* P1, P11, P111, .. and harga i
SeedPost(i) ==
    SetFields([title |-> Str(IF i % 2 = 1 THEN <<"a">> ELSE <<"b">>)],
              [created_at |-> Date(0), updated_at |-> Date(0)])

SeedProduk(i) ==
    produkBaru(Payload(Str(<<"P">> \o [k \in 1..i |-> "1"]), Pen,
                       IF i % 2 = 1 THEN Office ELSE Str(<<"a">>),
                       Num(10 * i), Num(100)), 0)

InitPage ==
    /\ reachable = TRUE
    /\ timer = 0
    /\ listens = 1
    /\ phase = "listening"
    /\ retries = 0
    /\ uniqueIndex = TRUE
    /\ clock = 0
    /\ \E n \in 0..MaxTotal :
        /\ produk = [i \in 1..n |-> SeedProduk(i)]
        /\ posts = [i \in (n + 1)..(2 * n) |-> SeedPost(i - n)]
        /\ nextId = 2 * n + 1
    /\ req = [r \in Slots |-> Idle]
    /\ issued = 0

NextPage ==
    \E r \in Slots :
        \/ \E query \in PostQueries : PostListStart(r, query)
        \/ PostListFind(r)
        \/ PostListCount(r)
        \/ \E query \in ProdukQueries : ProdukListStart(r, query)
        \/ ProdukListFind(r)
        \/ ProdukListCount(r)
        \/ \E body \in PostBodies : PostCreateStart(r, body)
        \/ PostInsertOne(r)
        \/ \E id \in IdParams : ProdukDeleteStart(r, id)
        \/ ProdukDeleteFindOne(r)
        \/ ProdukDeleteOne(r)
        \/ StoreFails(r)

SpecPage == InitPage /\ [][NextPage]_vars

\* the number a page or limit parameter spells, d when it is absent
Given(x, d) == IF x = Undef THEN d ELSE DigitsVal(x.s, Len(x.s))

\* C8: a list response (200) reports N = the number of documents matching
\* the filter when they are counted, the page p and the page size L as
\* given (defaults 1 and 10), total_pages = ceil(N/L), i.e. the least k with
\* k*L >= N, has_next iff p < total_pages and has_prev iff p > 1.
C8_Pagination ==
    [][\A r \in Slots :
        ( /\ req[r].kind \in {"GET /posts", "GET /api/produk"}
          /\ req[r].pc = "countDocuments"
          /\ req'[r].status = 200 )
        => LET query == req[r].query
               N == IF req[r].kind = "GET /posts"
                    THEN Cardinality(Matching(posts, PostListFilter(query)))
                    ELSE Cardinality(Matching(produk, ProdukListFilter(query)))
               pg == req'[r].pagination
               L == Given(query.limit, 10)
               p == Given(query.page, 1)
           IN  /\ pg.total_data = N
               /\ pg.per_page = L
               /\ pg.current_page = p
               /\ pg.total_pages * L >= N
               /\ (pg.total_pages - 1) * L < N
               /\ pg.has_next = (p < pg.total_pages)
               /\ pg.has_prev = (p > 1)
      ]_vars

\* C8 witness: a list response for a middle page (has_next and has_prev)
\* whose last page is not full (N is no multiple of L).
C8_Witness ==
    \E r \in Slots :
        /\ req[r].kind \in {"GET /posts", "GET /api/produk"}
        /\ req[r].status = 200
        /\ req[r].pagination.total_data % req[r].pagination.per_page # 0
        /\ req[r].pagination.has_next
        /\ req[r].pagination.has_prev

(***************************************************************************)
(* validateProduk over a grid of payloads, checked under SpecValidate: the *)
(* server takes in one product write and its handler validates the body.   *)
(***************************************************************************)
KodeValues ==
    {Undef, Null, Str(<<>>), Str(<<" ">>), Str(<<"P", "1">>), Str(<<" ", "P", " ">>),
     Num(0), Num(10), Bool(TRUE)}

NamaValues ==
    {Undef, Str(<<"P", "e">>), Str(<<"P", "e", "n">>), Str(<<" ", "P", "e", " ">>),
     Bool(TRUE)}

KategoriValues == {Undef, Str(<<" ">>), Str(<<"O", "f">>), Num(10)}

HargaValues ==
    {Undef, Null, Num(0), Num(50), Num(5), Num(0 - 10), Str(<<"5">>),
     Str(<<"2", ".", "5">>), Str(<<"-", "1">>), Str(<<"a">>), Str(<<" ">>),
     Str(<<>>), Bool(TRUE), Bool(FALSE)}

StokValues ==
    {Undef, Null, Num(0), Num(100), Num(15), Num(0 - 10), Num(0 - 5), Str(<<"5">>),
     Str(<<"1", ".", "5">>), Str(<<"-", "1">>), Str(<<"a">>), Str(<<>>), Bool(TRUE)}

GridPayloads ==
    {Payload(k, n, c, h, t) :
        k \in KodeValues, n \in NamaValues, c \in KategoriValues,
        h \in HargaValues, t \in StokValues}

InitValidate ==
    /\ reachable = TRUE
    /\ timer = 0
    /\ listens = 1
    /\ phase = "listening"
    /\ retries = 0
    /\ uniqueIndex = TRUE
    /\ clock = 0
    /\ posts = [i \in {} |-> Null]
    /\ produk = [i \in {} |-> Null]
    /\ nextId = 1
    /\ req = [r \in Slots |-> Idle]
    /\ issued = MaxIssued - 1

NextValidate ==
    \E r \in Slots :
        \/ /\ Accepts(r)
           /\ \E body \in GridPayloads : ProdukCreateStart(r, body)
        \/ /\ Accepts(r)
           /\ \E id \in IdParams, body \in GridPayloads : ProdukUpdateStart(r, id, body)

SpecValidate == InitValidate /\ [][NextValidate]_vars

\* x is a number, or a string that spells one
Numeric(x) ==
    \/ x.t = "number" /\ ~x.b
    \/ /\ x.t = "string"
       /\ Trim(x.s) # <<>>
       /\ ScanDecimal(Trim(x.s)).ok
       /\ ScanDecimal(Trim(x.s)).used = Len(Trim(x.s))

\* the value of a numeric x, in tenths
ValueOf(x) == IF x.t = "number" THEN x.n ELSE ScanDecimal(Trim(x.s)).n

\* the five rules of the validator as the specification states them
Rule1(data) == data.kode_produk.t = "string" /\ Trim(data.kode_produk.s) # <<>>
Rule2(data) == data.nama_produk.t = "string" /\ Len(Trim(data.nama_produk.s)) >= 3
Rule3(data) == data.kategori.t = "string" /\ Trim(data.kategori.s) # <<>>
Rule4(data) == Numeric(data.harga) /\ ValueOf(data.harga) > 0
Rule5(data) ==
    Numeric(data.stok) /\ ValueOf(data.stok) % 10 = 0 /\ ValueOf(data.stok) >= 0

ExpectedErrors(data) ==
    (IF Rule1(data) THEN <<>> ELSE <<MsgKode>>)
    \o (IF Rule2(data) THEN <<>> ELSE <<MsgNama>>)
    \o (IF Rule3(data) THEN <<>> ELSE <<MsgKategori>>)
    \o (IF Rule4(data) THEN <<>> ELSE <<MsgHarga>>)
    \o (IF Rule5(data) THEN <<>> ELSE <<MsgStok>>)

\* C7: for every payload validateProduk returns, without throwing, the
\* list of the messages of exactly the violated rules, in the order of the
\* rules 1 to 5 (seen in the handler that called it: no TypeError is
\* caught and the errors it holds are that list).
C7_ValidatorListsViolatedRules ==
    \A r \in Slots :
        ( /\ req[r].kind \in {"POST /api/produk", "PUT /api/produk/:id"}
          /\ req[r].kind = "PUT /api/produk/:id" => req[r].id.wf )
        => /\ req[r].err # "TypeError"
           /\ req[r].errors = ExpectedErrors(req[r].body)

(***************************************************************************)
(* Every handler of the server over a small store, checked under SpecAll.  *)
(***************************************************************************)
MaxSeed == 1      \* documents in each collection at the start

None5 == <<Undef, Undef, Undef, Undef, Undef>>
Empty == Str(<<>>)

PostSearchQueries ==
    {PostSearchQuery(f[1], f[2], f[3], f[4], f[5]) :
        f \in {None5,
               <<Empty, Empty, Empty, Empty, Empty>>,
               <<Empty, Undef, Undef, Undef, Undef>>,
               <<Str(<<"a">>), Undef, Undef, Undef, Undef>>,
               <<Undef, Str(<<"b">>), Str(<<"a">>), Undef, Undef>>,
               <<Undef, Undef, Undef, Str(<<"0">>), Str(<<"x">>)>>}}

ProdukSearchQueries ==
    {ProdukSearchQuery(f[1], f[2], f[3], f[4], f[5], f[6], f[7]) :
        f \in {<<Undef, Undef, Undef, Undef, Undef, Undef, Undef>>,
               <<Empty, Empty, Empty, Empty, Empty, Empty, Empty>>,
               <<Undef, Undef, Undef, Undef, Undef, Undef, Empty>>,
               <<Undef, Undef, Undef, Undef, Undef, Undef, Str(<<"t", "r", "u", "e">>)>>,
               <<Undef, Undef, Undef, Undef, Undef, Undef,
                 Str(<<"f", "a", "l", "s", "e">>)>>,
               <<Str(<<"e">>), Str(<<"P">>), Undef, Str(<<"2">>), Undef, Undef, Undef>>,
               <<Undef, Undef, Str(<<"a">>), Undef, Str(<<"5">>), Str(<<"a">>), Undef>>}}

ListQueries ==
    {Query(Undef, Undef, Undef, Undef, p, Undef) : p \in {Undef, Str(<<"0">>)}}

FewPostBodies == {EmptyBody, [title |-> Str(<<"a">>)], [title |-> Str(<<"b">>)]}
FewProdukBodies == {PayloadP2, PayloadNumKode}

InitAll ==
    /\ reachable = TRUE
    /\ timer = 0
    /\ listens = 1
    /\ phase = "listening"
    /\ retries = 0
    /\ uniqueIndex = TRUE
    /\ clock = 0
    /\ \E n \in 0..MaxSeed :
        /\ produk = [i \in 1..n |-> SeedProduk(i)]
        /\ posts = [i \in (n + 1)..(2 * n) |-> SeedPost(i - n)]
        /\ nextId = 2 * n + 1
    /\ req = [r \in Slots |-> Idle]
    /\ issued = 0

NextAll ==
    \E r \in Slots :
        \/ \E query \in ListQueries : PostListStart(r, query)
        \/ PostListFind(r)
        \/ PostListCount(r)
        \/ \E id \in IdParams : PostGetStart(r, id)
        \/ PostGetFindOne(r)
        \/ \E query \in PostSearchQueries : PostSearchStart(r, query)
        \/ PostSearchFind(r)
        \/ \E body \in FewPostBodies : PostCreateStart(r, body)
        \/ PostInsertOne(r)
        \/ \E id \in IdParams, body \in FewPostBodies :
                PostUpdateStart(r, id, body)
        \/ PostUpdateFindOne(r)
        \/ PostUpdateOne(r)
        \/ PostUpdateRefetch(r)
        \/ \E id \in IdParams : PostDeleteStart(r, id)
        \/ PostDeleteFindOne(r)
        \/ PostDeleteOne(r)
        \/ \E query \in ListQueries : ProdukListStart(r, query)
        \/ ProdukListFind(r)
        \/ ProdukListCount(r)
        \/ \E id \in IdParams : ProdukGetStart(r, id)
        \/ ProdukGetFindOne(r)
        \/ \E query \in ProdukSearchQueries : ProdukSearchStart(r, query)
        \/ ProdukSearchFind(r)
        \/ \E body \in FewProdukBodies : ProdukCreateStart(r, body)
        \/ ProdukCreateFindOne(r)
        \/ ProdukCreateInsertOne(r)
        \/ \E id \in IdParams, body \in FewProdukBodies :
                ProdukUpdateStart(r, id, body)
        \/ ProdukUpdateFindOne(r)
        \/ ProdukUpdateDupCheck(r)
        \/ ProdukUpdateOne(r)
        \/ ProdukUpdateRefetch(r)
        \/ \E id \in IdParams : ProdukDeleteStart(r, id)
        \/ ProdukDeleteFindOne(r)
        \/ ProdukDeleteOne(r)
        \/ HealthStart(r)
        \/ HealthCountPosts(r)
        \/ HealthCountProduk(r)
        \/ StoreFails(r)

SpecAll == InitAll /\ [][NextAll]_vars

\* C13: every request is answered exactly once: each step leaves every
\* request with one response if its handler has finished and none before,
\* never two; a store operation that fails at any await of any handler is
\* answered 500 by that handler, the process goes on listening and the
\* slot is free for the next request.
C13_ExactlyOneResponse ==
    [][\A r \in Slots :
        /\ req'[r].sent = (IF req'[r].pc = "done" THEN 1 ELSE 0)
        /\ req'[r].pc = "done" => req'[r].status # 0
        /\ phase' = "listening"
        /\ ( /\ Stepped(r)
             /\ req'[r].err = "StoreError" )
            => /\ req'[r].pc = "done"
               /\ req'[r].status = 500
               /\ req'[r].ops = req[r].ops + 1
      ]_vars

\* C13 witness: the second count of a health check has failed and was
\* answered 500, and a later request has been answered since.
C13_Witness ==
    \E r1, r2 \in Slots :
        /\ req[r1].kind = "GET /health"
        /\ req[r1].err = "StoreError"
        /\ req[r1].status = 500
        /\ req[r1].ops = 2
        /\ req[r1].sent = 1
        /\ r2 # r1
        /\ req[r2].status = 200
        /\ issued = 3

SearchKinds == {"GET /posts/search/advanced", "GET /api/produk/search/advanced"}

\* C15: an advanced search (posts or products) none of whose recognized
\* parameters has a non-empty value is answered 400 at once, having issued
\* no store operation.
C15_SearchWithoutParametersIs400 ==
    \A r \in Slots :
        ( /\ req[r].kind \in SearchKinds
          /\ \A k \in DOMAIN req[r].query : req[r].query[k] \in {Undef, Empty} )
        => (req[r].pc = "done" /\ req[r].status = 400 /\ req[r].ops = 0)

\* C15 witness: a search whose parameters are all given, all empty, has
\* been answered 400.
C15_Witness ==
    \E r \in Slots :
        /\ req[r].kind \in SearchKinds
        /\ \A k \in DOMAIN req[r].query : req[r].query[k] = Empty
        /\ req[r].status = 400
        /\ req[r].ops = 0

\* C16: whenever an advanced search (posts or products) queries the store,
\* the filter it passes holds at least one predicate, and a search answered
\* 200 reports a filter that is not empty.
C16_SearchFilterNotEmpty ==
    \A r \in Slots :
        /\ At(r, "GET /posts/search/advanced", "find")
            => PostSearchFilter(req[r].query) # NoFilter
        /\ At(r, "GET /api/produk/search/advanced", "find")
            => ProdukSearchFilter(req[r].query) # NoFilter
        /\ (req[r].kind \in SearchKinds /\ req[r].status = 200)
            => req[r].data.filter_used # {}

(***************************************************************************)
(* Startup, checked under SpecStart: the connection attempts with the      *)
(* store going up and down, then health checks on the listening server.    *)
(* An attempt is run when its timer fires, hence the weak fairness.        *)
(***************************************************************************)
connectWithRetry == ConnectFails \/ ConnectSucceeds \/ ConnectIndexFails

NextStart ==
    \/ StoreUp
    \/ StoreDown
    \/ ConnectFails
    \/ ConnectSucceeds
    \/ ConnectIndexFails
    \/ \E r \in Slots :
        \/ HealthStart(r)
        \/ HealthCountPosts(r)
        \/ HealthCountProduk(r)
        \/ StoreFails(r)

SpecStart == Init /\ [][NextStart]_vars /\ WF_vars(connectWithRetry)

\* C14: a request is accepted only once a connection attempt has succeeded
\* and app.listen has been called; an attempt number n that fails leaves
\* the server starting and schedules attempt n + 1 after
\* min(30000, 1000 * 2^n) ms; app.listen is called at most once; and if
\* the store is reachable from some point on, the server eventually listens.
C14_Startup ==
    /\ [][issued' # issued => (phase = "listening" /\ listens = 1)]_vars
    /\ [][(phase = "starting" /\ ~reachable /\ ~reachable')
            => /\ phase' = "starting"
               /\ retries' = retries + 1
               /\ timer' = (IF 1000 * 2^retries < 30000
                            THEN 1000 * 2^retries ELSE 30000)]_vars
    /\ [][listens' <= 1]_vars
    /\ (<>[]reachable => <>(phase = "listening"))

\* C14 witness: attempt number 5 has failed and scheduled the next one with
\* the capped delay, and the store has come up since.
C14_Witness ==
    /\ phase = "starting"
    /\ retries = 6
    /\ timer = 30000
    /\ reachable

(***************************************************************************)
(* Create, then get.                                                       *)
(***************************************************************************)
\* a payload the Product schema and the five rules of the validator allow
ValidProduct(data) ==
    /\ Rule1(data) /\ Rule2(data) /\ Rule3(data) /\ Rule4(data) /\ Rule5(data)
    /\ data.deskripsi.t \in {"undefined", "string"}
    /\ data.supplier.t \in {"undefined", "string"}

\* doc is the payload with its strings trimmed, harga and stok as the numbers
\* they spell, and the fields the server stamps
EqualModuloStamps(data, doc) ==
    /\ doc.kode_produk = Str(Trim(data.kode_produk.s))
    /\ doc.nama_produk = Str(Trim(data.nama_produk.s))
    /\ doc.kategori = Str(Trim(data.kategori.s))
    /\ doc.harga = Num(ValueOf(data.harga))
    /\ doc.stok = Num(ValueOf(data.stok))
    /\ data.deskripsi.t = "string" => doc.deskripsi = Str(Trim(data.deskripsi.s))
    /\ data.supplier.t = "string" => doc.supplier = Str(Trim(data.supplier.s))
    /\ doc.tanggal_dibuat.t = "date"
    /\ doc.tanggal_diupdate.t = "date"
    /\ doc.status = "aktif"

\* C12: when the only two requests are a product create with a valid
\* payload, answered 201, and a get with the identifier it returned, the
\* store answering the get gives 200 with the document equal to the payload
\* after trimming and numeric coercion, plus tanggal_dibuat,
\* tanggal_diupdate and status = "aktif".
C12_CreateThenGet ==
    [][\A r1, r2 \in Slots :
        ( /\ issued = 2
          /\ req[r1].kind = "POST /api/produk"
          /\ req[r1].status = 201
          /\ ValidProduct(req[r1].body)
          /\ At(r2, "GET /api/produk/:id", "findOne")
          /\ req[r2].id.oid = req[r1].data._id
          /\ Stepped(r2)
          /\ req'[r2].err # "StoreError" )
        => /\ req'[r2].status = 200
           /\ req'[r2].data._id = req[r2].id.oid
           /\ EqualModuloStamps(req[r1].body, req'[r2].data)
      ]_vars

====
